---- MODULE Spec2Model ----
(***************************************************************************)
(* Model of glennswest/console-server: the reboot detector                 *)
(* (src/sol/reboot.go), the per-host log writer (src/unnamed/part_001) and *)
(* the SOL session manager (src/sol/manager.go).                           *)
(***************************************************************************)
EXTENDS Integers, Sequences, FiniteSets, TLC

\* ------------------------------------------------------------------------
\* Bounds of the model
\* ------------------------------------------------------------------------

\* last instant of the detector's clock (one tick = one minute)
MaxTime == 3
\* number of back-to-back Check calls remembered in hist
HistLen == 3
\* last instant of the log writer's clock (one tick = one second, the
\* precision of a log file's name)
MaxClock == 3
\* seconds in a day, scaled down
SecsPerDay == 2
\* chunks the log files of the disk hold together at most
MaxBytes == 2
\* sessions StartSession creates in one run
MaxSessions == 2
\* channels Subscribe makes in one run
MaxChans == 2
\* backoff timers that expire in one run, over all runSession loops
MaxTimerFires == 2
\* the same, in the runs that follow the backoff up to its cap
MaxWaits == 7

\* ------------------------------------------------------------------------
\* State
\* ------------------------------------------------------------------------

VARIABLES
    states,     \* RebootDetector.states: map serverName -> serverState
    rdNow,      \* time.Now() as seen by the detector, in minutes
    hist,       \* the Check calls made back to back for one host: no other
                \* operation and no clock tick in between (observation only)
    marked      \* the host of the last MarkOSRunning call, as long as no
                \* Check came after it but the one hist holds; NoHost
                \* otherwise (observation only)

rdVars == <<states, rdNow, hist, marked>>

VARIABLES
    files,          \* Writer.files: map serverName -> open *os.File, held
                    \* as the name the file was opened under
    disk,           \* per server directory: file name -> [mtime, data];
                    \* a name is the creation timestamp
    link,           \* per server directory: the current.log symlink, where
                    \* there is one: [target, mtime]
    fsNow,          \* time.Now() as seen by the writer, in seconds
    retentionDays,  \* Writer.retentionDays
    lastOp          \* the writer operation performed last and what it
                    \* returned (observation only)

logVars == <<files, disk, link, fsNow, retentionDays, lastOp>>

VARIABLES
    sessions,   \* Manager.sessions: map serverName -> *Session (its id)
    sess,       \* the Session objects made so far, by id: ServerName,
                \* whether cancel() has fired (ctx.Done() is closed), and the
                \* subscribers map (isNil after StopSession set it to nil)
    loop,       \* the runSession goroutine of each Session: where it is
                \* (pc), its backoff, in seconds, and the backoff waits it
                \* has sat through (waits, observation only)
    chans,      \* the channels Subscribe made, by id: the Session each was
                \* registered in, how often it was closed and whether its
                \* unsubscribe closure was invoked
    mu,         \* Manager.mu: the caller holding the write lock, or NoCaller
    callers,    \* the goroutines calling into the Manager: where each is
                \* in StartSession or Subscribe, and its local variables
    panicked,   \* a goroutine panicked: the process is gone
    timers      \* backoff timers still to expire in this run

mgrVars == <<sessions, sess, loop, chans, mu, callers, panicked, timers>>

vars == <<rdVars, logVars, mgrVars>>

\* the managed servers
Servers == {"s1", "s2"}

NoHost == ""

\* ========================================================================
\* Log writer  (src/unnamed/part_001, package logs)
\* ========================================================================

\* retention windows a Writer is constructed with (0 and below disable it)
RetentionChoices == {0, 1}

\* one console chunk
Chunks == {"a", "b"}

\* What lastOp records of a call: the operation and its server, its inputs
\* (arg), for a Write the server's handle, symlink and directory as the call
\* found them (pre), the error and value returned, and whether the clock
\* has ticked since (idle).
Called(op, serverName, arg, pre, err, out) ==
    [op |-> op, host |-> serverName, arg |-> arg, pre |-> pre,
     err |-> err, out |-> out, idle |-> FALSE]

Done(op, serverName, err, out) == Called(op, serverName, <<>>, <<>>, err, out)

NoOp == Done("none", "", FALSE, <<>>)

\* m[k] = v on a Go map held as a function
Put(m, k, v) == [x \in DOMAIN m \cup {k} |-> IF x = k THEN v ELSE m[x]]

\* delete(m, k)
Del(m, k) == [x \in DOMAIN m \ {k} |-> m[x]]

EmptyMap == [x \in {} |-> 0]

RECURSIVE SumLen(_, _)
SumLen(dir, names) ==
    IF names = {} THEN 0
    ELSE LET n == CHOOSE x \in names : TRUE
         IN Len(dir[n].data) + SumLen(dir, names \ {n})

\* chunks held by all log files on disk
TotalBytes ==
    LET RECURSIVE Sum(_)
        Sum(hs) == IF hs = {} THEN 0
                   ELSE LET h == CHOOSE x \in hs : TRUE
                        IN SumLen(disk[h], DOMAIN disk[h]) + Sum(hs \ {h})
    IN Sum(Servers)

\* os.Readlink(current.log) succeeds and the file it names exists
Resolves(serverName) ==
    /\ serverName \in DOMAIN link
    /\ link[serverName].target \in DOMAIN disk[serverName]

\* Mutant: the resume of the file current.log names is skipped.
getOrCreateFile_NoResume(serverName, reopenOk, createOk) ==
    IF serverName \in DOMAIN files
    THEN [err |-> FALSE, f |-> files[serverName], disk |-> disk, link |-> link]
    ELSE IF ~createOk
    THEN [err |-> TRUE, f |-> -1, disk |-> disk, link |-> link]
    ELSE LET filename == fsNow
         IN [err  |-> FALSE,
             f    |-> filename,
             disk |-> IF filename \in DOMAIN disk[serverName]
                      THEN disk
                      ELSE [disk EXCEPT ![serverName] =
                               Put(@, filename, [mtime |-> fsNow, data |-> <<>>])],
             link |-> Put(link, serverName, [target |-> filename, mtime |-> fsNow])]

\* Writer.getOrCreateFile: the handle to write through, and the directory
\* and symlink as it leaves them.  reopenOk and createOk are the operating
\* system's answers to the two os.OpenFile calls.
getOrCreateFile(serverName, reopenOk, createOk) ==
    IF serverName \in DOMAIN files
    THEN [err |-> FALSE, f |-> files[serverName], disk |-> disk, link |-> link]
    ELSE IF Resolves(serverName) /\ reopenOk
    THEN [err |-> FALSE, f |-> link[serverName].target, disk |-> disk, link |-> link]
    ELSE IF ~createOk
    THEN [err |-> TRUE, f |-> -1, disk |-> disk, link |-> link]
    ELSE LET filename == fsNow
         IN [err  |-> FALSE,
             f    |-> filename,
             \* O_CREATE opens the file of that name if there is one
             disk |-> IF filename \in DOMAIN disk[serverName]
                      THEN disk
                      ELSE [disk EXCEPT ![serverName] =
                               Put(@, filename, [mtime |-> fsNow, data |-> <<>>])],
             \* os.Remove(symlinkPath); os.Symlink(filename, symlinkPath)
             link |-> Put(link, serverName, [target |-> filename, mtime |-> fsNow])]

\* f.Write(data) through a handle: the bytes reach the directory only while
\* the file is still linked in it
FileWrite(dir, f, data) ==
    IF f \in DOMAIN dir
    THEN [dir EXCEPT ![f] = [mtime |-> fsNow, data |-> Append(@.data, data)]]
    ELSE dir

Write(serverName, data, reopenOk, createOk) ==
    LET r   == getOrCreateFile(serverName, reopenOk, createOk)
        arg == [data |-> data, reopenOk |-> reopenOk, createOk |-> createOk]
        pre == [open |-> serverName \in DOMAIN files,
                link |-> IF serverName \in DOMAIN link
                         THEN <<link[serverName]>> ELSE <<>>,
                dir  |-> disk[serverName]]
    IN /\ TotalBytes < MaxBytes
       /\ IF r.err
          THEN /\ UNCHANGED <<files, disk, link>>
               /\ lastOp' = Called("Write", serverName, arg, pre, TRUE, <<>>)
          ELSE /\ files' = Put(files, serverName, r.f)
               /\ disk' = [r.disk EXCEPT ![serverName] = FileWrite(@, r.f, data)]
               /\ link' = r.link
               /\ lastOp' = Called("Write", serverName, arg, pre, FALSE, <<>>)
       /\ UNCHANGED <<fsNow, retentionDays, rdVars, mgrVars>>

\* Mutant: Rotate also removes current.log.
Rotate_Unlink(serverName) ==
    /\ files' = Del(files, serverName)
    /\ link' = Del(link, serverName)
    /\ lastOp' = Done("Rotate", serverName, FALSE,
                      IF serverName \in DOMAIN files THEN <<files[serverName]>> ELSE <<>>)
    /\ UNCHANGED <<disk, fsNow, retentionDays, rdVars, mgrVars>>

Rotate(serverName) ==
    /\ files' = Del(files, serverName)
    \* out: the handle Rotate closed, if one was open
    /\ lastOp' = Done("Rotate", serverName, FALSE,
                      IF serverName \in DOMAIN files THEN <<files[serverName]>> ELSE <<>>)
    /\ UNCHANGED <<disk, link, fsNow, retentionDays, rdVars, mgrVars>>

GetCurrentLogContent(serverName) ==
    /\ lastOp' = Done("GetCurrentLogContent", serverName, FALSE,
                      IF Resolves(serverName)
                      THEN disk[serverName][link[serverName].target].data
                      ELSE <<>>)
    /\ UNCHANGED <<files, disk, link, fsNow, retentionDays, rdVars, mgrVars>>

\* cutoff := time.Now().AddDate(0, 0, -w.retentionDays)
Cutoff == fsNow - retentionDays * SecsPerDay

\* Cleanup walks every *.log entry of every server directory, current.log
\* among them, and removes those whose own ModTime is before the cutoff.
Cleanup ==
    /\ IF retentionDays <= 0
       THEN UNCHANGED <<disk, link>>
       ELSE /\ disk' = [h \in Servers |->
                           [n \in {x \in DOMAIN disk[h] : ~(disk[h][x].mtime < Cutoff)}
                               |-> disk[h][n]]]
            /\ link' = [h \in {x \in DOMAIN link : ~(link[x].mtime < Cutoff)}
                           |-> link[h]]
    /\ lastOp' = Done("Cleanup", "", FALSE, <<>>)
    /\ UNCHANGED <<files, fsNow, retentionDays, rdVars, mgrVars>>

Close ==
    /\ files' = EmptyMap
    /\ lastOp' = Done("Close", "", FALSE, <<>>)
    /\ UNCHANGED <<disk, link, fsNow, retentionDays, rdVars, mgrVars>>

ClearLogs(serverName) ==
    /\ files' = Del(files, serverName)
    /\ disk' = [disk EXCEPT ![serverName] = EmptyMap]
    /\ link' = Del(link, serverName)
    /\ lastOp' = Done("ClearLogs", serverName, FALSE, <<>>)
    /\ UNCHANGED <<fsNow, retentionDays, rdVars, mgrVars>>

ClearAllLogs ==
    /\ files' = EmptyMap
    /\ disk' = [h \in Servers |-> EmptyMap]
    /\ link' = EmptyMap
    /\ lastOp' = Done("ClearAllLogs", "", FALSE, <<>>)
    /\ UNCHANGED <<fsNow, retentionDays, rdVars, mgrVars>>

\* the process ends and NewWriter is called again on the same basePath
Restart ==
    /\ files' = EmptyMap
    /\ lastOp' = Done("NewWriter", "", FALSE, <<>>)
    /\ UNCHANGED <<disk, link, fsNow, retentionDays, rdVars, mgrVars>>

FsTick ==
    /\ fsNow < MaxClock
    /\ fsNow' = fsNow + 1
    /\ lastOp' = [lastOp EXCEPT !.idle = TRUE]
    /\ UNCHANGED <<files, disk, link, retentionDays, rdVars, mgrVars>>

\* NewWriter(basePath, retentionDays) on an empty basePath
InitWriter ==
    /\ files = EmptyMap
    /\ disk = [h \in Servers |-> EmptyMap]
    /\ link = EmptyMap
    /\ fsNow = 0
    /\ lastOp = NoOp



\* ========================================================================
\* RebootDetector  (src/sol/reboot.go)
\* ========================================================================

\* rd.cooldown = 2 * time.Minute
cooldown == 2

\* the zero time.Time of a fresh serverState
ZeroTime == -1

biosPatterns ==
    { "American Megatrends", "Press <DEL> to run Setup", "Press DEL to run Setup",
      "BIOS Date:", "Supermicro", "Intel\\(R\\) Boot Agent", "PXE-", "PXE->",
      "PXELINUX", "iPXE initialising", "iPXE \\d+\\.\\d+",
      "Open Source Network Boot Firmware", "Booting baremetalservices",
      "UNDI code segment", "CLIENT MAC ADDR:", "free base memory after PXE" }

osPatterns ==
    { "\\[\\s*\\d+\\.\\d+\\]", "Linux version \\d+\\.\\d+", "login:", "#\\s*$",
      "\\$\\s*$", "systemd\\[", "Starting.*\\.\\.\\.", "Started ",
      "eth\\d+:.*link", "NTP sync" }

simplePatterns ==
    { "welcome to", "kernel:", "last login:", "no mail", "/home/", "/root/",
      "apt ", "yum ", "apk ", "docker", "kubelet" }

\* Console chunks fed to the detector.
TextLogin == "login:"
TextAMI   == "American Megatrends"
TextDMI   == "kernel: DMI: Supermicro X10SLM-F"
TextPlain == "memory test ok"

Texts == {TextLogin, TextAMI, TextDMI, TextPlain}

\* regexp "(?i)"+p .MatchString(text), evaluated on the chunks of Texts
MatchString(p, text) ==
    \/ text = TextLogin /\ p = "login:"
    \/ text = TextAMI   /\ p = "American Megatrends"
    \/ text = TextDMI   /\ p = "Supermicro"

\* strings.Contains(strings.ToLower(text), p), evaluated on the chunks of Texts
ContainsLower(text, p) ==
    text = TextDMI /\ p = "kernel:"

matchesBIOS(text) == \E p \in biosPatterns : MatchString(p, text)

matchesOS(text) ==
    \/ \E p \in simplePatterns : ContainsLower(text, p)
    \/ \E p \in osPatterns : MatchString(p, text)

\* time.Since(state.lastReboot) < rd.cooldown; time.Since of the zero time
\* saturates at the largest Duration, far above the cooldown
InCooldown(state, t) ==
    state.lastReboot # ZeroTime /\ t - state.lastReboot < cooldown

\* the serverState Check works on: the stored one or a lazily created one
StateOf(serverName) ==
    IF serverName \in DOMAIN states
    THEN states[serverName]
    ELSE [inOS |-> FALSE, lastReboot |-> ZeroTime]

\* Mutants of CheckStep.
CheckStep_NoInOSGuard(state, text, t) ==
    IF InCooldown(state, t)
    THEN [inOS |-> state.inOS \/ matchesOS(text), lastReboot |-> state.lastReboot, ret |-> FALSE]
    ELSE IF matchesOS(text)
    THEN [inOS |-> TRUE, lastReboot |-> state.lastReboot, ret |-> FALSE]
    ELSE IF matchesBIOS(text)
    THEN [inOS |-> FALSE, lastReboot |-> t, ret |-> TRUE]
    ELSE [inOS |-> state.inOS, lastReboot |-> state.lastReboot, ret |-> FALSE]

CheckStep_NoCooldown(state, text, t) ==
    IF matchesOS(text)
    THEN [inOS |-> TRUE, lastReboot |-> state.lastReboot, ret |-> FALSE]
    ELSE IF matchesBIOS(text)
    THEN IF state.inOS
         THEN [inOS |-> FALSE, lastReboot |-> t, ret |-> TRUE]
         ELSE [inOS |-> state.inOS, lastReboot |-> state.lastReboot, ret |-> FALSE]
    ELSE [inOS |-> state.inOS, lastReboot |-> state.lastReboot, ret |-> FALSE]

CheckStep_BIOSFirst(state, text, t) ==
    IF InCooldown(state, t)
    THEN [inOS |-> state.inOS \/ matchesOS(text), lastReboot |-> state.lastReboot, ret |-> FALSE]
    ELSE IF matchesBIOS(text)
    THEN IF state.inOS
         THEN [inOS |-> FALSE, lastReboot |-> t, ret |-> TRUE]
         ELSE [inOS |-> state.inOS, lastReboot |-> state.lastReboot, ret |-> FALSE]
    ELSE IF matchesOS(text)
    THEN [inOS |-> TRUE, lastReboot |-> state.lastReboot, ret |-> FALSE]
    ELSE [inOS |-> state.inOS, lastReboot |-> state.lastReboot, ret |-> FALSE]

CheckStep_NoRearm(state, text, t) ==
    IF InCooldown(state, t)
    THEN [inOS |-> state.inOS \/ matchesOS(text), lastReboot |-> state.lastReboot, ret |-> FALSE]
    ELSE IF matchesOS(text)
    THEN [inOS |-> state.inOS \/ state.lastReboot = ZeroTime,
          lastReboot |-> state.lastReboot, ret |-> FALSE]
    ELSE IF matchesBIOS(text)
    THEN IF state.inOS
         THEN [inOS |-> FALSE, lastReboot |-> t, ret |-> TRUE]
         ELSE [inOS |-> state.inOS, lastReboot |-> state.lastReboot, ret |-> FALSE]
    ELSE [inOS |-> state.inOS, lastReboot |-> state.lastReboot, ret |-> FALSE]

\* The body of RebootDetector.Check on one serverState at time t: the new
\* inOS and lastReboot, and the value returned.
CheckStep(state, text, t) ==
    IF InCooldown(state, t)
    THEN [inOS |-> state.inOS \/ matchesOS(text), lastReboot |-> state.lastReboot, ret |-> FALSE]
    ELSE IF matchesOS(text)
    THEN [inOS |-> TRUE, lastReboot |-> state.lastReboot, ret |-> FALSE]
    ELSE IF matchesBIOS(text)
    THEN IF state.inOS
         THEN [inOS |-> FALSE, lastReboot |-> t, ret |-> TRUE]
         ELSE [inOS |-> state.inOS, lastReboot |-> state.lastReboot, ret |-> FALSE]
    ELSE [inOS |-> state.inOS, lastReboot |-> state.lastReboot, ret |-> FALSE]

\* rd.states[serverName] = state
PutState(serverName, state) ==
    [s \in DOMAIN states \cup {serverName} |->
        IF s = serverName THEN state ELSE states[s]]

\* hist with one more call, kept to calls of one host and to HistLen entries
Remember(call) ==
    LET same == IF hist # <<>> /\ hist[1].host = call.host THEN hist ELSE <<>>
        all  == Append(same, call)
    IN IF Len(all) > HistLen THEN Tail(all) ELSE all

Check(serverName, text) ==
    LET state == StateOf(serverName)
        r     == CheckStep(state, text, rdNow)
    IN /\ states' = PutState(serverName, [inOS |-> r.inOS, lastReboot |-> r.lastReboot])
       /\ hist' = Remember([host |-> serverName, text |-> text, ret |-> r.ret,
                            pre |-> state, cool |-> InCooldown(state, rdNow)])
       /\ marked' = IF hist = <<>> /\ marked = serverName THEN marked ELSE NoHost
       /\ UNCHANGED <<rdNow, logVars, mgrVars>>

\* Mutant: MarkOSRunning also forgets the last detection.
MarkOSRunning_ClearCooldown(serverName) ==
    /\ states' = PutState(serverName, [inOS |-> TRUE, lastReboot |-> ZeroTime])
    /\ hist' = <<>>
    /\ marked' = serverName
    /\ UNCHANGED <<rdNow, logVars, mgrVars>>

MarkOSRunning(serverName) ==
    /\ states' = PutState(serverName,
                    [inOS |-> TRUE, lastReboot |-> StateOf(serverName).lastReboot])
    /\ hist' = <<>>
    /\ marked' = serverName
    /\ UNCHANGED <<rdNow, logVars, mgrVars>>

RdTick ==
    /\ rdNow < MaxTime
    /\ rdNow' = rdNow + 1
    /\ hist' = <<>>
    /\ marked' = IF hist = <<>> THEN marked ELSE NoHost
    /\ UNCHANGED <<states, logVars, mgrVars>>

\* NewRebootDetector(patterns) with no user patterns
InitDetector ==
    /\ states = [s \in {} |-> [inOS |-> FALSE, lastReboot |-> ZeroTime]]
    /\ rdNow = 0
    /\ hist = <<>>
    /\ marked = NoHost

\* ========================================================================
\* Session manager  (src/sol/manager.go)
\* ========================================================================

\* goroutines calling StartSession, StopSession and Subscribe concurrently
Callers == {"c1", "c2"}

NoCaller == "none"

\* backoff := time.Second
InitialBackoff == 1

\* if backoff > 60*time.Second { backoff = 60 * time.Second }
MaxBackoff == 60

\* a caller between two calls.  ret, host and ch hold what the call that
\* returned last in the whole Manager returned, when it was a Subscribe of
\* this caller: ret says that it returned, ch is the channel it returned,
\* 0 for (nil, nil) (observation only)
Idle == [pc |-> "idle", host |-> "", existing |-> 0, sid |-> 0,
         ret |-> FALSE, ch |-> 0]

\* the caller after its Subscribe(serverName) returned ch
Returned(serverName, ch) == [Idle EXCEPT !.host = serverName, !.ret = TRUE, !.ch = ch]

\* caller c goes on as `now`; what an earlier Subscribe of another caller
\* returned is no longer the last return
After(c, now) ==
    [d \in Callers |->
        IF d = c THEN now
        ELSE IF callers[d].ret THEN Idle ELSE callers[d]]

\* the Sessions made so far
Sids == DOMAIN sess

\* existing.cancel(): closes the Session's ctx.Done(); 0 stands for "no
\* existing session"
Cancel(ss, sid) ==
    IF sid = 0 THEN ss ELSE [ss EXCEPT ![sid].cancelled = TRUE]

\* &Session{...} appended to the Sessions made so far
WithNewSession(ss, serverName) ==
    [i \in DOMAIN ss \cup {Cardinality(DOMAIN ss) + 1} |->
        IF i \in DOMAIN ss THEN ss[i]
        ELSE [host |-> serverName, cancelled |-> FALSE,
              subscribers |-> {}, isNil |-> FALSE]]

\* Mutant: the new session is installed before the existing one is
\* cancelled.
StartOrder_InstallFirst == <<"install", "cancel">>

\* The order of the two statements StartSession runs under m.mu: cancel the
\* existing session, then install the new one.
StartOrder == <<"cancel", "install">>

\* one of the two statements of StartSession, run by caller c for serverName
\* with `existing` the session found at the start of the call
StartStatement(what, c, serverName, existing) ==
    IF what = "cancel"
    THEN /\ sess' = Cancel(sess, existing)
         /\ UNCHANGED <<sessions, loop>>
         /\ callers' = After(c,
                           [Idle EXCEPT !.pc = "start", !.host = serverName,
                                        !.existing = existing,
                                        !.sid = callers[c].sid])
    ELSE LET sid == Cardinality(Sids) + 1
         IN /\ sess' = WithNewSession(sess, serverName)
            /\ sessions' = Put(sessions, serverName, sid)
            /\ loop' = [i \in DOMAIN loop \cup {sid} |->
                           IF i \in DOMAIN loop THEN loop[i]
                           ELSE [pc |-> "unstarted", backoff |-> InitialBackoff,
                                 waits |-> 0]]
            /\ callers' = After(c,
                              [Idle EXCEPT !.pc = "start", !.host = serverName,
                                           !.existing = existing, !.sid = sid])

\* Mutant: the existing session is never cancelled.
StartSessionLocked_NoCancel(c, serverName) ==
    /\ ~panicked
    /\ callers[c].pc = "idle"
    /\ mu = NoCaller
    /\ Cardinality(Sids) < MaxSessions
    /\ mu' = c
    /\ UNCHANGED <<sess, sessions, loop>>
    /\ callers' = After(c,
                      [Idle EXCEPT !.pc = "start", !.host = serverName])
    /\ UNCHANGED <<chans, panicked, timers, rdVars, logVars>>

\* StartSession, lines 58-63: m.mu.Lock(), the lookup of the existing
\* session and the first statement under the lock
StartSessionLocked(c, serverName) ==
    /\ ~panicked
    /\ callers[c].pc = "idle"
    /\ mu = NoCaller
    /\ Cardinality(Sids) < MaxSessions
    /\ mu' = c
    /\ StartStatement(StartOrder[1], c, serverName,
                      IF serverName \in DOMAIN sessions THEN sessions[serverName] ELSE 0)
    /\ UNCHANGED <<chans, panicked, timers, rdVars, logVars>>

\* StartSession, lines 65-74: the second statement under the lock, and
\* m.mu.Unlock()
StartSessionUnlock(c) ==
    /\ ~panicked
    /\ callers[c].pc = "start"
    /\ mu = c
    /\ StartStatement(StartOrder[2], c, callers[c].host, callers[c].existing)
    /\ mu' = NoCaller
    /\ UNCHANGED <<chans, panicked, timers, rdVars, logVars>>

\* StartSession, line 76: go m.runSession(ctx, session)
StartSessionGo(c) ==
    /\ ~panicked
    /\ callers[c].pc = "start"
    /\ mu # c
    /\ loop' = [loop EXCEPT ![callers[c].sid].pc = "select1"]
    /\ callers' = After(c, Idle)
    /\ UNCHANGED <<sessions, sess, chans, mu, panicked, timers, rdVars, logVars>>

\* close(ch) for every ch of a set
CloseAll(cs, set) ==
    [ch \in DOMAIN cs |->
        IF ch \in set THEN [cs[ch] EXCEPT !.closed = @ + 1] ELSE cs[ch]]

\* Mutant: StopSession does not call session.cancel().
StopSession_NoCancel(c, serverName) ==
    /\ ~panicked
    /\ callers[c].pc = "idle"
    /\ mu = NoCaller
    /\ IF serverName \in DOMAIN sessions
       THEN LET sid == sessions[serverName]
            IN /\ sess' = [sess EXCEPT ![sid].subscribers = {},
                                       ![sid].isNil = TRUE]
               /\ chans' = CloseAll(chans, sess[sid].subscribers)
               /\ sessions' = Del(sessions, serverName)
       ELSE UNCHANGED <<sess, chans, sessions>>
    /\ callers' = After(c, Idle)
    /\ UNCHANGED <<loop, mu, panicked, timers, rdVars, logVars>>

\* StopSession: one critical section of m.mu, with session.subMu inside
StopSession(c, serverName) ==
    /\ ~panicked
    /\ callers[c].pc = "idle"
    /\ mu = NoCaller
    /\ IF serverName \in DOMAIN sessions
       THEN LET sid == sessions[serverName]
            IN /\ sess' = [sess EXCEPT ![sid].cancelled = TRUE,
                                       ![sid].subscribers = {},
                                       ![sid].isNil = TRUE]
               /\ chans' = CloseAll(chans, sess[sid].subscribers)
               /\ sessions' = Del(sessions, serverName)
       ELSE UNCHANGED <<sess, chans, sessions>>
    /\ callers' = After(c, Idle)
    /\ UNCHANGED <<loop, mu, panicked, timers, rdVars, logVars>>

\* Mutant: for a server without a session Subscribe makes a channel all the
\* same and returns it, registered nowhere.
SubscribeLookup_HungChannel(c, serverName) ==
    /\ ~panicked
    /\ callers[c].pc = "idle"
    /\ mu = NoCaller
    /\ Cardinality(DOMAIN chans) < MaxChans
    /\ LET ch == Cardinality(DOMAIN chans) + 1
       IN /\ chans' = [i \in DOMAIN chans \cup {ch} |->
                          IF i \in DOMAIN chans THEN chans[i]
                          ELSE [sid |-> 0, closed |-> 0, unsubscribed |-> FALSE]]
          /\ callers' = After(c, Returned(serverName, ch))
    /\ UNCHANGED <<sessions, sess, loop, mu, panicked, timers, rdVars, logVars>>

\* Subscribe, lines 116-122: the lookup under m.mu.RLock()
SubscribeLookup(c, serverName) ==
    /\ ~panicked
    /\ callers[c].pc = "idle"
    /\ mu = NoCaller
    /\ IF serverName \in DOMAIN sessions
       THEN callers' = After(c,
                           [Idle EXCEPT !.pc = "subscribe", !.host = serverName,
                                     !.sid = sessions[serverName]])
       ELSE callers' = After(c, Returned(serverName, 0))
    /\ UNCHANGED <<sessions, sess, loop, chans, mu, panicked, timers, rdVars, logVars>>

\* Subscribe, lines 124-136: make the channel and register it under
\* session.subMu; an assignment to an entry of a nil map panics
SubscribeInsert(c) ==
    /\ ~panicked
    /\ callers[c].pc = "subscribe"
    /\ Cardinality(DOMAIN chans) < MaxChans
    /\ LET sid == callers[c].sid
           ch  == Cardinality(DOMAIN chans) + 1
       IN IF sess[sid].isNil
          THEN /\ panicked' = TRUE
               /\ UNCHANGED <<sess, chans, callers>>
          ELSE /\ chans' = [i \in DOMAIN chans \cup {ch} |->
                               IF i \in DOMAIN chans THEN chans[i]
                               ELSE [sid |-> sid, closed |-> 0, unsubscribed |-> FALSE]]
               /\ sess' = [sess EXCEPT ![sid].subscribers = @ \cup {ch}]
               /\ callers' = After(c, Returned(callers[c].host, ch))
               /\ UNCHANGED panicked
    /\ UNCHANGED <<sessions, loop, mu, timers, rdVars, logVars>>

\* Mutant: the closure empties the subscriber set.
Unsubscribe_All(ch) ==
    /\ ~panicked
    /\ ch \in DOMAIN chans
    /\ sess' = [sess EXCEPT ![chans[ch].sid].subscribers = {}]
    /\ chans' = [chans EXCEPT ![ch].unsubscribed = TRUE]
    /\ UNCHANGED <<sessions, loop, mu, callers, panicked, timers, rdVars, logVars>>

\* the unsubscribe closure Subscribe returned for ch, invoked any number of
\* times: delete under session.subMu (a delete on a nil map, or of a key the
\* map does not hold, does nothing)
Unsubscribe(ch) ==
    /\ ~panicked
    /\ ch \in DOMAIN chans
    /\ sess' = [sess EXCEPT ![chans[ch].sid].subscribers = @ \ {ch}]
    /\ chans' = [chans EXCEPT ![ch].unsubscribed = TRUE]
    /\ UNCHANGED <<sessions, loop, mu, callers, panicked, timers, rdVars, logVars>>

\* Mutant: no check of ctx.Done() at the top of the loop.
RunSelectTop_NoCheck(sid) ==
    /\ ~panicked
    /\ loop[sid].pc = "select1"
    /\ loop' = [loop EXCEPT ![sid].pc = "connect"]
    /\ UNCHANGED <<sessions, sess, chans, mu, callers, panicked, timers, rdVars, logVars>>

\* runSession, lines 143-147: select { case <-ctx.Done(): return; default: }
RunSelectTop(sid) ==
    /\ ~panicked
    /\ loop[sid].pc = "select1"
    /\ loop' = [loop EXCEPT ![sid].pc =
                   IF sess[sid].cancelled THEN "returned" ELSE "connect"]
    /\ UNCHANGED <<sessions, sess, chans, mu, callers, panicked, timers, rdVars, logVars>>

\* Mutant: runSession returns when connectSOL fails.
RunConnect_GiveUp(sid) ==
    /\ ~panicked
    /\ loop[sid].pc = "connect"
    /\ loop' = [loop EXCEPT ![sid].pc = "returned"]
    /\ UNCHANGED <<sessions, sess, chans, mu, callers, panicked, timers, rdVars, logVars>>

\* runSession, lines 151-156: connectSOL always fails ("SOL disabled")
RunConnect(sid) ==
    /\ ~panicked
    /\ loop[sid].pc = "connect"
    /\ loop' = [loop EXCEPT ![sid].pc = "select2"]
    /\ UNCHANGED <<sessions, sess, chans, mu, callers, panicked, timers, rdVars, logVars>>

\* runSession, lines 158-160: case <-ctx.Done(): return
RunWaitDone(sid) ==
    /\ ~panicked
    /\ loop[sid].pc = "select2"
    /\ sess[sid].cancelled
    /\ loop' = [loop EXCEPT ![sid].pc = "returned"]
    /\ UNCHANGED <<sessions, sess, chans, mu, callers, panicked, timers, rdVars, logVars>>

\* Mutant: the doubled backoff is not capped.
NextBackoff_NoCap(backoff) == backoff * 2

\* backoff = backoff * 2, capped at 60 s
NextBackoff(backoff) ==
    IF backoff * 2 > MaxBackoff THEN MaxBackoff ELSE backoff * 2

\* runSession, lines 161-167: case <-time.After(backoff); chosen also when
\* ctx.Done() is ready too
RunWaitTimer(sid) ==
    /\ ~panicked
    /\ loop[sid].pc = "select2"
    /\ timers > 0
    /\ loop' = [loop EXCEPT ![sid] = [pc |-> "select1",
                                      backoff |-> NextBackoff(@.backoff),
                                      waits |-> @.waits + 1]]
    /\ timers' = timers - 1
    /\ UNCHANGED <<sessions, sess, chans, mu, callers, panicked, rdVars, logVars>>

\* NewManager
InitManager ==
    /\ sessions = EmptyMap
    /\ sess = EmptyMap
    /\ loop = EmptyMap
    /\ chans = EmptyMap
    /\ mu = NoCaller
    /\ callers = [c \in Callers |-> Idle]
    /\ panicked = FALSE
    /\ timers = MaxTimerFires

\* ========================================================================
\* Specifications
\* ========================================================================

\* the detector alone
InitRD == InitDetector /\ InitWriter /\ retentionDays = 0 /\ InitManager

NextRD ==
    \/ \E s \in Servers, text \in Texts : Check(s, text)
    \/ \E s \in Servers : MarkOSRunning(s)
    \/ RdTick

SpecRD == InitRD /\ [][NextRD]_vars

\* the log writer alone
InitLog == InitWriter /\ retentionDays \in RetentionChoices /\ InitDetector /\ InitManager

NextLog ==
    \/ \E s \in Servers, data \in Chunks, reopenOk \in BOOLEAN, createOk \in BOOLEAN :
          Write(s, data, reopenOk, createOk)
    \/ \E s \in Servers : Rotate(s)
    \/ \E s \in Servers : GetCurrentLogContent(s)
    \/ Cleanup
    \/ Close
    \/ \E s \in Servers : ClearLogs(s)
    \/ ClearAllLogs
    \/ Restart
    \/ FsTick

SpecLog == InitLog /\ [][NextLog]_vars

\* The session manager.  The runSession loops and the subscriber sets do
\* not read or write each other's state (a loop reads only its ctx, a
\* subscriber set is touched by Subscribe, its closure and StopSession), so
\* the manager is checked in two specifications over the same StartSession
\* and StopSession: Spec runs the loops, SpecSub the subscriptions.
Init == InitManager /\ InitDetector /\ InitWriter /\ retentionDays = 0

Lifecycle ==
    \/ \E c \in Callers, s \in Servers : StartSessionLocked(c, s)
    \/ \E c \in Callers : StartSessionUnlock(c)
    \/ \E c \in Callers : StartSessionGo(c)
    \/ \E c \in Callers, s \in Servers : StopSession(c, s)

Next ==
    \/ Lifecycle
    \/ \E sid \in Sids : RunSelectTop(sid)
    \/ \E sid \in Sids : RunConnect(sid)
    \/ \E sid \in Sids : RunWaitDone(sid)
    \/ \E sid \in Sids : RunWaitTimer(sid)

Spec == Init /\ [][Next]_vars

NextSub ==
    \/ Lifecycle
    \/ \E c \in Callers, s \in Servers : SubscribeLookup(c, s)
    \/ \E c \in Callers : SubscribeInsert(c)
    \/ \E ch \in DOMAIN chans : Unsubscribe(ch)

SpecSub == Init /\ [][NextSub]_vars

\* The manager with its loops, followed long enough for the backoff to reach
\* its cap.
InitBackoff ==
    /\ sessions = EmptyMap
    /\ sess = EmptyMap
    /\ loop = EmptyMap
    /\ chans = EmptyMap
    /\ mu = NoCaller
    /\ callers = [c \in Callers |-> Idle]
    /\ panicked = FALSE
    /\ timers = MaxWaits
    /\ InitDetector /\ InitWriter /\ retentionDays = 0

SpecBackoff == InitBackoff /\ [][Next]_vars

\* ------------------------------------------------------------------------
\* Properties of the reboot detector
\* ------------------------------------------------------------------------

\* the most recent Check call, when no other operation or tick came after it
LastCall == hist[Len(hist)]

BiosOnly(text) == matchesBIOS(text) /\ ~matchesOS(text)

\* C3: Check returns true only on an OS-to-firmware transition: the record
\* had inOS = TRUE just before the call, the call was outside the cooldown
\* window, the text matches a boot-indicator rule and no OS-indicator rule;
\* the record then has inOS = FALSE and lastReboot = now.  So a boot
\* indicator for a host with inOS = FALSE (or seen for the first time)
\* returns false.
C3_TrueOnlyOnTransition ==
    hist # <<>> =>
        /\ LastCall.ret =>
              /\ LastCall.pre.inOS
              /\ ~(LastCall.pre.lastReboot # ZeroTime
                     /\ rdNow - LastCall.pre.lastReboot < cooldown)
              /\ BiosOnly(LastCall.text)
              /\ states[LastCall.host] = [inOS |-> FALSE, lastReboot |-> rdNow]
        /\ (matchesBIOS(LastCall.text) /\ ~LastCall.pre.inOS) => ~LastCall.ret

C3_Witness ==
    /\ hist # <<>>
    /\ LastCall.ret
    /\ LastCall.pre.inOS
    /\ states[LastCall.host].inOS = FALSE

\* the calls i, i+1, i+2 of hist are the scenario "login:", "American
\* Megatrends", "American Megatrends", the first one made outside a cooldown
Scenario(i) ==
    /\ hist[i].text = TextLogin /\ ~hist[i].cool
    /\ hist[i + 1].text = TextAMI
    /\ hist[i + 2].text = TextAMI

\* C4: a Check made less than the cooldown (2 minutes) after the host's
\* last detection returns false whatever the text and whatever inOS is, so
\* two detections of one host are at least a cooldown apart; and "login:",
\* "American Megatrends", "American Megatrends" fed back to back to a host
\* that is not cooling down yield false, true, false.
C4_CooldownSuppresses ==
    /\ hist # <<>> =>
          /\ (LastCall.pre.lastReboot # ZeroTime
                /\ rdNow - LastCall.pre.lastReboot < cooldown) => ~LastCall.ret
          /\ (LastCall.ret /\ LastCall.pre.lastReboot # ZeroTime)
                => rdNow - LastCall.pre.lastReboot >= cooldown
    /\ \A i \in 1..(Len(hist) - 2) :
          Scenario(i) => /\ hist[i].ret = FALSE
                         /\ hist[i + 1].ret = TRUE
                         /\ hist[i + 2].ret = FALSE

\* a boot indicator arrives inside the cooldown for a host whose inOS an OS
\* indicator has set back to TRUE, and is suppressed
C4_Witness ==
    /\ Len(hist) >= 3
    /\ hist[Len(hist) - 2].ret
    /\ matchesOS(hist[Len(hist) - 1].text)
    /\ LastCall.pre.inOS
    /\ LastCall.pre.lastReboot = rdNow
    /\ BiosOnly(LastCall.text)
    /\ ~LastCall.ret

\* C5: a Check whose text matches any OS-indicator rule returns false and
\* leaves inOS = TRUE and lastReboot unchanged, in every state of the record
\* and also when the text matches a boot-indicator rule too.
C5_OSEvidenceWins ==
    (hist # <<>> /\ matchesOS(LastCall.text)) =>
        /\ ~LastCall.ret
        /\ states[LastCall.host].inOS
        /\ states[LastCall.host].lastReboot = LastCall.pre.lastReboot

\* a chunk matching both rule sets reaches an armed host outside cooldown
C5_Witness ==
    /\ hist # <<>>
    /\ LastCall.text = TextDMI
    /\ matchesBIOS(LastCall.text) /\ matchesOS(LastCall.text)
    /\ LastCall.pre.inOS
    /\ ~LastCall.cool
    /\ ~LastCall.ret

\* the host is armed: believed in its OS and outside any cooldown
Armed(s) ==
    /\ s \in DOMAIN states
    /\ states[s].inOS
    /\ ~InCooldown(states[s], rdNow)

\* an OS indicator seen after a detection, once the cooldown has expired,
\* arms the host; a boot-only indicator checked next returns true
RearmInv ==
    /\ \A i \in 1..Len(hist) :
          ( /\ hist[i].pre.lastReboot # ZeroTime
            /\ rdNow - hist[i].pre.lastReboot >= cooldown
            /\ matchesOS(hist[i].text) )
          => /\ i = Len(hist) => Armed(hist[i].host)
             /\ (i < Len(hist) /\ BiosOnly(hist[i + 1].text))
                   => /\ hist[i + 1].ret
                      /\ hist[i + 1].pre.inOS
    /\ \A i \in 1..Len(hist) :
          (hist[i].pre.inOS /\ ~hist[i].cool /\ BiosOnly(hist[i].text)) => hist[i].ret

\* an armed host stays armed, whatever happens and however much time passes,
\* until a Check on it returns true
ArmedStays ==
    \A s \in Servers :
        Armed(s) =>
            \/ Armed(s)'
            \/ /\ hist' # <<>>
               /\ hist'[Len(hist')].host = s
               /\ hist'[Len(hist')].ret

\* C6: after a detection and once the cooldown has expired, a Check with an
\* OS indicator sets inOS = TRUE and the next Check with a boot-only
\* indicator returns true again, at any later time.
C6_Rearming == []RearmInv /\ [][ArmedStays]_vars

\* a second detection for a host, right after an OS indicator re-armed it
C6_Witness ==
    /\ Len(hist) >= 2
    /\ hist[Len(hist) - 1].pre.lastReboot # ZeroTime
    /\ ~hist[Len(hist) - 1].cool
    /\ ~hist[Len(hist) - 1].pre.inOS
    /\ matchesOS(hist[Len(hist) - 1].text)
    /\ BiosOnly(LastCall.text)
    /\ LastCall.ret
    /\ states[LastCall.host].lastReboot # LastCall.pre.lastReboot

\* ------------------------------------------------------------------------
\* Properties of the log writer
\* ------------------------------------------------------------------------

\* this step is a call of op on serverName
Calls(op, serverName) ==
    /\ lastOp'.op = op
    /\ lastOp'.host = serverName
    /\ ~lastOp'.idle

\* C7: for a server with an open log file, Rotate followed by Write creates
\* a new file distinct from the file current.log resolved to before the
\* Rotate, appends the bytes to that new file and not to the previous one,
\* and leaves current.log resolving to the new file.
C7_RotateThenWriteNewFile ==
    [][ \A s \in Servers :
          ( /\ lastOp.op = "Rotate" /\ lastOp.host = s /\ lastOp.out # <<>>
            /\ Resolves(s)
            /\ Calls("Write", s)
            /\ ~lastOp'.err )
          => \E n \in DOMAIN disk'[s] \ DOMAIN disk[s] :
                /\ n # link[s].target
                /\ disk'[s][n].data = <<lastOp'.arg.data>>
                /\ disk'[s][link[s].target] = disk[s][link[s].target]
                /\ s \in DOMAIN link' /\ link'[s].target = n
      ]_vars

\* the last operation was a Write on a server that had no open handle
WroteUnopened ==
    /\ lastOp.op = "Write"
    /\ ~lastOp.idle
    /\ ~lastOp.pre.open

\* the file current.log resolved to when the last Write was called
PreTarget == lastOp.pre.link[1].target

PreResolved ==
    /\ lastOp.pre.link # <<>>
    /\ PreTarget \in DOMAIN lastOp.pre.dir

\* C8: a Write for a server with no open handle, whose current.log resolves
\* to an existing file that can be reopened, appends the bytes to that file,
\* creates no file and leaves current.log as it was; a Write creates a file
\* or repoints current.log only when the server has no open handle and
\* current.log is missing, dangling, or its target cannot be reopened.
C8_ResumeOnRestart ==
    (lastOp.op = "Write" /\ ~lastOp.idle) =>
        LET s == lastOp.host
            linkNow == IF s \in DOMAIN link THEN <<link[s]>> ELSE <<>>
        IN /\ (WroteUnopened /\ PreResolved /\ lastOp.arg.reopenOk) =>
                 /\ ~lastOp.err
                 /\ s \in DOMAIN files /\ files[s] = PreTarget
                 /\ DOMAIN disk[s] = DOMAIN lastOp.pre.dir
                 /\ linkNow = lastOp.pre.link
                 /\ disk[s][PreTarget].data =
                        Append(lastOp.pre.dir[PreTarget].data, lastOp.arg.data)
                 /\ \A n \in DOMAIN disk[s] \ {PreTarget} : disk[s][n] = lastOp.pre.dir[n]
           /\ (DOMAIN disk[s] # DOMAIN lastOp.pre.dir \/ linkNow # lastOp.pre.link) =>
                 /\ ~lastOp.pre.open
                 /\ ~(PreResolved /\ lastOp.arg.reopenOk)

\* a Write after a restart found current.log resolving to a file that
\* already held data, and resumed it
C8_Witness ==
    /\ WroteUnopened
    /\ PreResolved
    /\ lastOp.arg.reopenOk
    /\ ~lastOp.err
    /\ lastOp.pre.dir[PreTarget].data # <<>>
    /\ PreTarget < fsNow
    /\ Len(disk[lastOp.host][PreTarget].data) = Len(lastOp.pre.dir[PreTarget].data) + 1

\* the most recently created log file of a server: names are creation times
Newest(s) == CHOOSE n \in DOMAIN disk[s] : \A m \in DOMAIN disk[s] : m <= n

\* C9: after any sequence of operations, current.log of every server
\* resolves to the server's most recently created log file; it is absent
\* only if the server has no log file, and it never dangles.
C9_PointerInvariant ==
    \A s \in Servers :
        IF DOMAIN disk[s] = {}
        THEN s \notin DOMAIN link
        ELSE /\ s \in DOMAIN link
             /\ link[s].target = Newest(s)

\* C10: Cleanup with retentionDays > 0 deletes exactly the log files whose
\* ModTime is before the cutoff and leaves untouched every newer file, the
\* file open for writing, current.log and its target; with
\* retentionDays <= 0 it changes nothing.
C10_CleanupRetention ==
    [][ Calls("Cleanup", "") =>
          IF retentionDays > 0
          THEN /\ \A s \in Servers :
                     /\ \A n \in DOMAIN disk[s] :
                           IF disk[s][n].mtime < Cutoff
                                 /\ ~(s \in DOMAIN files /\ files[s] = n)
                                 /\ ~(s \in DOMAIN link /\ link[s].target = n)
                           THEN n \notin DOMAIN disk'[s]
                           ELSE n \in DOMAIN disk'[s] /\ disk'[s][n] = disk[s][n]
                     /\ DOMAIN disk'[s] \subseteq DOMAIN disk[s]
               /\ link' = link
               /\ files' = files
          ELSE disk' = disk /\ link' = link /\ files' = files
      ]_vars

\* ------------------------------------------------------------------------
\* Properties of the session manager
\* ------------------------------------------------------------------------

\* the runSession loop of a Session is attempting a connection or waiting
\* on its backoff
Active(sid) == loop[sid].pc \in {"connect", "select2"}

\* the loop has been launched and has not returned
Running(sid) == loop[sid].pc \in {"select1", "connect", "select2"}

SameHost(s1, s2) == s1 # s2 /\ sess[s1].host = sess[s2].host

\* C1 as claimed: the loops launched by two StartSession calls for one
\* server are never both active (attempting a connection or waiting on
\* backoff) at the same time.
C1_OneLoopPerHost ==
    \A s1 \in Sids, s2 \in Sids :
        SameHost(s1, s2) => ~(Active(s1) /\ Active(s2))

\* C1 as amended: of the loops launched for one server at most one is
\* launched, not returned and not cancelled; a superseded loop may still be
\* active, but only with its cancellation fired.  And once the loop of the
\* session the registry holds is launched, it is running unless cancelled.
C1_OneLiveLoopPerHost ==
    /\ \A s1 \in Sids, s2 \in Sids :
          (SameHost(s1, s2) /\ Running(s1) /\ Running(s2))
             => (sess[s1].cancelled \/ sess[s2].cancelled)
    /\ \A h \in DOMAIN sessions :
          (loop[sessions[h]].pc # "unstarted" /\ ~sess[sessions[h]].cancelled)
             => Running(sessions[h])

\* two StartSession calls for one server have both launched their loops:
\* the first is still active with its cancellation fired, the second is
\* active and is the one the registry holds
C1_Witness ==
    \E s1 \in Sids, s2 \in Sids :
        /\ SameHost(s1, s2)
        /\ Active(s1) /\ sess[s1].cancelled
        /\ Active(s2) /\ ~sess[s2].cancelled
        /\ sess[s2].host \in DOMAIN sessions
        /\ sessions[sess[s2].host] = s2

\* C2: whenever the registry maps a server to a session, every other
\* session made for that server has had its cancellation fired: the
\* superseded session is cancelled before the new one is installed.  (That
\* the registry holds one record per server is the map itself.)
C2_RetireBeforeInstall ==
    \A h \in DOMAIN sessions :
        \A sid \in Sids :
            (sess[sid].host = h /\ sid # sessions[h]) => sess[sid].cancelled

\* a StartSession for a managed server has installed its session, and the
\* superseded session, whose loop has not returned yet, is cancelled
C2_Witness ==
    \E h \in DOMAIN sessions :
        \E sid \in Sids :
            /\ sess[sid].host = h
            /\ sid # sessions[h]
            /\ sess[sid].cancelled
            /\ ~sess[sid].isNil
            /\ ~sess[sessions[h]].cancelled
            /\ mu = NoCaller

\* ------------------------------------------------------------------------
\* Properties of the subscriptions
\* ------------------------------------------------------------------------

\* the channel is registered in the subscriber set of its Session: Subscribe
\* returned it and its unsubscribe closure has not removed it
Registered(ch) == ch \in sess[chans[ch].sid].subscribers

\* the Session the channel was made for belongs to server h
ChanOf(ch, h) == sess[chans[ch].sid].host = h

\* this step is a StopSession on a server the registry holds
Stops(h) == h \in DOMAIN sessions /\ h \notin DOMAIN sessions'

\* C11: when StopSession(h) completes on a managed server, every channel
\* Subscribe(h) returned and that was not unsubscribed since is closed, also
\* the channels registered before a superseding StartSession(h); the
\* subscriber set is cleared and the registry holds no session for h.
C11_StopClosesEverySink ==
    [][ \A h \in Servers :
          Stops(h) =>
             /\ \A ch \in DOMAIN chans :
                   (ChanOf(ch, h) /\ Registered(ch)) => chans'[ch].closed >= 1
             /\ sess'[sessions[h]].subscribers = {}
             /\ h \notin DOMAIN sessions'
      ]_vars

\* caller c's Subscribe returns in this step without having made a channel
ReturnsAtLookup(c) ==
    /\ callers[c].pc = "idle"
    /\ callers'[c].ret
    /\ callers'[c] # callers[c]

\* C12: Subscribe for a server the registry holds no session for (never
\* started, or stopped) returns (nil, nil) and changes nothing: no channel
\* is made or registered and no session is created.  Subscribe goes on to
\* make a channel only for a server the registry holds.
C12_SubscribeAbsent ==
    [][ \A c \in Callers :
          /\ ReturnsAtLookup(c) =>
                /\ callers'[c].ch = 0
                /\ callers'[c].host \notin DOMAIN sessions
                /\ UNCHANGED <<sessions, sess, chans, loop, mu, panicked>>
          /\ (callers[c].pc = "idle" /\ callers'[c].pc = "subscribe")
                => callers'[c].host \in DOMAIN sessions
      ]_vars

\* Subscribe returned (nil, nil) for a server that had a session with a
\* subscriber before StopSession removed it, while another server is managed
C12_Witness ==
    \E c \in Callers :
        /\ callers[c].ret
        /\ callers[c].ch = 0
        /\ callers[c].host \notin DOMAIN sessions
        /\ \E ch \in DOMAIN chans :
              /\ ChanOf(ch, callers[c].host)
              /\ chans[ch].closed = 1
        /\ DOMAIN sessions # {}

\* ------------------------------------------------------------------------
\* Properties of the runSession loops
\* ------------------------------------------------------------------------

\* the loop of the Session moves in this step
Moves(sid) == loop'[sid] # loop[sid]

\* a loop that has returned had its cancellation fired
ReturnedWasCancelled ==
    \A sid \in Sids : loop[sid].pc = "returned" => sess[sid].cancelled

\* a loop returns only when its cancellation has fired; a failed connection
\* attempt leads to the backoff wait, and the backoff wait of an uncancelled
\* loop to the next attempt
RetriesForever ==
    \A sid \in Sids :
        Moves(sid) =>
            /\ loop'[sid].pc = "returned" => sess[sid].cancelled
            /\ loop[sid].pc = "connect" => loop'[sid].pc = "select2"
            /\ (loop[sid].pc = "select2" /\ ~sess[sid].cancelled)
                  => loop'[sid].pc = "select1"
            /\ (loop[sid].pc = "select1" /\ ~sess[sid].cancelled)
                  => loop'[sid].pc = "connect"

\* C13: a runSession loop terminates only through cancellation: a loop that
\* has returned had its ctx cancelled (by StopSession or by a superseding
\* StartSession) before it returned, and no failed connection attempt makes
\* it return: it goes on to the backoff wait and to another attempt.
C13_ExitOnlyByCancel == []ReturnedWasCancelled /\ [][RetriesForever]_vars

\* one loop has returned after its cancellation, while another one, not
\* cancelled, is at a further attempt after failures
C13_Witness ==
    \E s1 \in Sids, s2 \in Sids :
        /\ loop[s1].pc = "returned" /\ sess[s1].cancelled
        /\ loop[s2].pc = "connect" /\ ~sess[s2].cancelled
        /\ loop[s2].backoff > InitialBackoff

\* a runSession goroutine that can take a step: launch included
LoopStep(sid) ==
    /\ sid \in Sids
    /\ \/ RunSelectTop(sid)
       \/ RunConnect(sid)
       \/ RunWaitDone(sid)
       \/ RunWaitTimer(sid)

\* The Go scheduler runs every runnable goroutine eventually: a caller
\* inside StartSession finishes it, and a runSession goroutine that can step
\* (its select has a ready case, or it is not blocked at all) does step.
Fairness ==
    /\ \A c \in Callers : WF_vars(StartSessionUnlock(c) \/ StartSessionGo(c))
    /\ \A sid \in 1..MaxSessions : WF_vars(LoopStep(sid))

SpecFair == Spec /\ Fairness

\* once cancel() has fired, the loop of the Session returns
CancelledReturns ==
    \A sid \in 1..MaxSessions :
        (sid \in Sids /\ sess[sid].cancelled) ~> (sid \in Sids /\ loop[sid].pc = "returned")

\* a loop begins a connection attempt only while its cancellation has not
\* fired, whichever case the select of the preceding backoff wait took
NoAttemptOnceCancelled ==
    \A sid \in Sids :
        (loop[sid].pc # "connect" /\ loop'[sid].pc = "connect") => ~sess[sid].cancelled

\* C14: cancellation is observed at every retry boundary: once the ctx of a
\* Session is cancelled its runSession loop eventually returns (fair
\* scheduling), and the loop begins no connection attempt after a backoff
\* wait before or during which the cancellation fired, also when the select
\* of the backoff wait takes the timer case with ctx.Done() ready too.
C14_CancelObserved == CancelledReturns /\ [][NoAttemptOnceCancelled]_vars

\* a loop that has been through backoff waits was cancelled and has
\* returned, no timer being left to expire
C14_Witness ==
    \E sid \in Sids :
        /\ sess[sid].cancelled
        /\ loop[sid].pc = "returned"
        /\ loop[sid].backoff > InitialBackoff
        /\ timers = 0

RECURSIVE Pow2(_)
Pow2(k) == IF k = 0 THEN 1 ELSE 2 * Pow2(k - 1)

Min(a, b) == IF a < b THEN a ELSE b

\* the backoff of a loop that has sat through k backoff waits, which is the
\* interval it waits after its k-th attempt (k = 0, 1, 2, ...)
BackoffIsPower ==
    \A sid \in Sids :
        /\ loop[sid].backoff = Min(Pow2(loop[sid].waits), MaxBackoff)
        /\ loop[sid].backoff >= InitialBackoff
        /\ loop[sid].backoff <= MaxBackoff

\* within one loop the backoff never decreases; a loop just made starts at 1
BackoffGrows ==
    /\ \A sid \in Sids : loop'[sid].backoff >= loop[sid].backoff
    /\ \A sid \in DOMAIN loop' \ Sids :
          loop'[sid].backoff = InitialBackoff /\ loop'[sid].waits = 0

\* C15: within one runSession the backoff waited after the k-th attempt is
\* min(2^k, 60) seconds: 1 at first, doubled after every attempt, never
\* below 1 nor above 60, never decreasing and never reset; the loop of a
\* later StartSession starts again at 1.
C15_BackoffSchedule == []BackoffIsPower /\ [][BackoffGrows]_vars

\* a loop has reached the cap and stayed there for one more wait, and the
\* loop of a later StartSession for the same server is at its first attempt
C15_Witness ==
    \E s1 \in Sids, s2 \in Sids :
        /\ SameHost(s1, s2)
        /\ s1 < s2
        /\ loop[s1].backoff = MaxBackoff
        /\ Pow2(loop[s1].waits) > 2 * MaxBackoff
        /\ loop[s2].pc = "select2"
        /\ loop[s2].backoff = InitialBackoff

\* ------------------------------------------------------------------------
\* Properties of MarkOSRunning
\* ------------------------------------------------------------------------

\* this step is a MarkOSRunning call
Marks == marked' # NoHost /\ hist' = <<>> /\ rdNow' = rdNow

\* MarkOSRunning sets inOS of the host, creating the record if there is
\* none, and changes neither its lastReboot nor any other record
MarkFrame ==
    Marks =>
        /\ DOMAIN states' = DOMAIN states \cup {marked'}
        /\ states'[marked'].inOS
        /\ states'[marked'].lastReboot =
              IF marked' \in DOMAIN states THEN states[marked'].lastReboot ELSE ZeroTime
        /\ \A s \in DOMAIN states \ {marked'} : states'[s] = states[s]

\* the first Check of the marked host after MarkOSRunning finds inOS set and
\* the cooldown as it was: a boot indicator returns false inside it, true
\* outside it
MarkedCheck ==
    marked # NoHost =>
        /\ marked \in DOMAIN states
        /\ hist = <<>> => states[marked].inOS
        /\ hist # <<>> =>
              /\ Len(hist) = 1
              /\ hist[1].host = marked
              /\ hist[1].pre.inOS
              /\ hist[1].cool = InCooldown(hist[1].pre, rdNow)
              /\ BiosOnly(hist[1].text) => (hist[1].ret <=> ~hist[1].cool)

\* C16: MarkOSRunning(host) sets inOS of the host (creating the record if
\* absent) and changes nothing else: its lastReboot and the records of all
\* other hosts stay, so a cooldown in progress is neither shortened nor
\* bypassed (a boot indicator checked right after MarkOSRunning inside the
\* cooldown returns false), while outside the cooldown the next
\* boot-indicator-only Check returns true.
C16_MarkRunningFrame == []MarkedCheck /\ [][MarkFrame]_vars

\* MarkOSRunning on a host that has just rebooted, then a boot indicator
\* inside the cooldown: suppressed, with the other host's record in place
C16_Witness ==
    /\ marked # NoHost
    /\ Len(hist) = 1
    /\ hist[1].cool
    /\ hist[1].pre.lastReboot = rdNow
    /\ BiosOnly(hist[1].text)
    /\ ~hist[1].ret
    /\ \E s \in DOMAIN states : s # marked /\ ~states[s].inOS

\* ------------------------------------------------------------------------
\* Properties of Rotate
\* ------------------------------------------------------------------------

\* C17: Rotate(server) never fails and only releases the handle: it returns
\* nil whether or not a file is open for the server, afterwards the Writer
\* holds no handle for it, and the files on disk, their contents, current.log
\* and the handles of all other servers are unchanged.
C17_RotateOnlyCloses ==
    [][ \A s \in Servers :
          Calls("Rotate", s) =>
             /\ ~lastOp'.err
             /\ s \notin DOMAIN files'
             /\ DOMAIN files' = DOMAIN files \ {s}
             /\ \A t \in DOMAIN files' : files'[t] = files[t]
             /\ disk' = disk
             /\ link' = link
      ]_vars

\* Rotate closed the open file of a server that has data on disk and a
\* current.log, while the other server keeps its open file
C17_Witness ==
    /\ lastOp.op = "Rotate"
    /\ ~lastOp.idle
    /\ lastOp.out # <<>>
    /\ lastOp.host \notin DOMAIN files
    /\ Resolves(lastOp.host)
    /\ disk[lastOp.host][link[lastOp.host].target].data # <<>>
    /\ DOMAIN files # {}

\* ------------------------------------------------------------------------
\* Properties of unsubscribe
\* ------------------------------------------------------------------------

\* no channel is closed twice, and a channel whose closure was invoked is in
\* no subscriber set: invoking the closure again removes nothing
ClosedOnceAndGone ==
    \A ch \in DOMAIN chans :
        /\ chans[ch].closed <= 1
        /\ chans[ch].unsubscribed => \A sid \in Sids : ch \notin sess[sid].subscribers

\* the closure of ch is invoked for the first time in this step
FirstUnsubscribe(ch) == ~chans[ch].unsubscribed /\ chans'[ch].unsubscribed

\* the closure of ch removes ch from the set of its Session and does nothing
\* else, also after StopSession set that map to nil; and a subscriber set
\* loses members only through a closure, one at a time, or all of them
\* through StopSession
OnlyOwnSink ==
    /\ \A ch \in DOMAIN chans :
          FirstUnsubscribe(ch) =>
             /\ sess' = [sess EXCEPT ![chans[ch].sid].subscribers = @ \ {ch}]
             /\ chans' = [chans EXCEPT ![ch].unsubscribed = TRUE]
             /\ UNCHANGED <<sessions, loop, mu, callers, panicked>>
    /\ \A sid \in Sids :
          LET gone == sess[sid].subscribers \ sess'[sid].subscribers
          IN gone # {} =>
                \/ \E ch \in gone : gone = {ch} /\ FirstUnsubscribe(ch)
                \/ Stops(sess[sid].host) /\ sessions[sess[sid].host] = sid

\* C18: the unsubscribe closure Subscribe returned removes its own channel
\* from the subscriber set of the Session and nothing else; invoking it
\* twice is invoking it once; it is safe in any order with StopSession, also
\* after StopSession cleared the set; and under every interleaving of
\* Subscribe, unsubscribe, StartSession and StopSession no channel is closed
\* more than once.
C18_UnsubscribeOwnSink == []ClosedOnceAndGone /\ [][OnlyOwnSink]_vars

\* two channels of one Session: the closure of the first was invoked before
\* StopSession, which closed the second only; the closure of the second was
\* invoked after StopSession
C18_Witness ==
    \E c1 \in DOMAIN chans, c2 \in DOMAIN chans :
        /\ chans[c1].sid = chans[c2].sid
        /\ chans[c1].unsubscribed /\ chans[c1].closed = 0
        /\ chans[c2].unsubscribed /\ chans[c2].closed = 1
        /\ sess[chans[c1].sid].isNil

\* ------------------------------------------------------------------------
\* Properties of Subscribe racing StopSession
\* ------------------------------------------------------------------------

\* C19: under every interleaving of a Subscribe and a StopSession of one
\* server, Subscribe completes without fault: it returns (nil, nil) or a
\* channel it put into the subscriber set before StopSession closed and
\* cleared it, and it never writes into a set StopSession has cleared.
C19_SubscribeNeverFaults ==
    /\ ~panicked
    /\ \A c \in Callers :
          (callers[c].ret /\ callers[c].ch # 0) =>
              /\ callers[c].ch \in DOMAIN chans
              /\ ~chans[callers[c].ch].unsubscribed =>
                    \/ Registered(callers[c].ch)
                    \/ chans[callers[c].ch].closed = 1

\* ------------------------------------------------------------------------
\* Properties of the registry and the loops
\* ------------------------------------------------------------------------

\* the registry maps the server of the Session to this very Session
InRegistry(sid) ==
    /\ sess[sid].host \in DOMAIN sessions
    /\ sessions[sess[sid].host] = sid

\* C20: every runSession loop that has not returned and whose Session is
\* not the one the registry maps its server to (a superseding StartSession
\* replaced it, or StopSession removed it) has had its cancellation fired:
\* no uncancelled loop is out of the registry's reach, after any sequence of
\* StartSession and StopSession calls on any servers.
C20_NoOrphanLoop ==
    \A sid \in Sids :
        (loop[sid].pc # "returned" /\ ~InRegistry(sid)) => sess[sid].cancelled

\* two loops of one server are running outside the registry, the first
\* superseded by the StartSession of the second, the second removed by
\* StopSession; both are cancelled
C20_Witness ==
    \E s1 \in Sids, s2 \in Sids :
        /\ SameHost(s1, s2)
        /\ s1 < s2
        /\ sess[s1].host \notin DOMAIN sessions
        /\ Running(s1) /\ sess[s1].cancelled /\ ~sess[s1].isNil
        /\ Running(s2) /\ sess[s2].cancelled /\ sess[s2].isNil

\* ------------------------------------------------------------------------
\* Properties of the open handles
\* ------------------------------------------------------------------------

\* the handle the Writer holds for the server is on a file of the server's
\* directory, the one current.log resolves to
HandleOnCurrent(s) ==
    /\ files[s] \in DOMAIN disk[s]
    /\ Resolves(s)
    /\ link[s].target = files[s]

\* the last operation was a Write that returned nil, and its bytes are the
\* end of what GetCurrentLogContent of the server would return now
WriteReadable ==
    (lastOp.op = "Write" /\ ~lastOp.err) =>
        /\ Resolves(lastOp.host)
        /\ LET data == disk[lastOp.host][link[lastOp.host].target].data
           IN data # <<>> /\ data[Len(data)] = lastOp.arg.data

\* C21: after any sequence of Writer operations the Writer holds at most one
\* handle per server (files is a map), every handle it holds is on an
\* existing file, the one current.log resolves to, and so the bytes of a
\* Write that returned nil are part of what the next GetCurrentLogContent
\* returns.
C21_HandleIsCurrentFile ==
    /\ \A s \in DOMAIN files : HandleOnCurrent(s)
    /\ WriteReadable

====
